---- MODULE Spec2Model ----
(***************************************************************************)
(* Verification model of colab-github-bridge:                              *)
(*   colab/colab_helper.py         update orchestrator and its git / REST  *)
(*                                 helpers (specification Spec),           *)
(*                                 commit_changes alone (SpecCommit)       *)
(*   scripts/create_github_file.py content publisher (SpecPublisher)       *)
(*   src/process.py                demo transform (SpecTransform)          *)
(*                                                                         *)
(* Text is a sequence of atoms (fragments of characters); concatenation is *)
(* \o, `needle in text` is Contains.  External processes and HTTP servers  *)
(* are the environment: every result they can hand back is drawn with \E.  *)
(***************************************************************************)
EXTENDS Integers, Sequences, FiniteSets, TLC

VARIABLES
    \* ---- colab_helper.safe_colab_update, one entry per run
    pc,           \* position of each run in safe_colab_update
    log,          \* steps each run has started, in order
    args,         \* arguments each run was called with
    commit_made,  \* local variable commit_made of each run
    result,       \* dict returned by each run (None until returned)
    error,        \* exception that ended each run (None if none)
    nonzero,      \* steps of each run in which an external command exited non-zero
    commitSeen,   \* what the commit step of each run met and answered
    prSeen,       \* HTTP response the pull-request step of each run received
    fs,           \* the destination directory on the runtime's filesystem
    gitconfig,    \* keys set in the global git configuration
    remote,       \* branches pushed to origin, by run
    \* ---- colab_helper.commit_changes called on its own
    cc,
    \* ---- create_github_file.create_or_update_file
    pub,
    \* ---- process.main
    tr

ovars == <<pc, log, args, commit_made, result, error, nonzero, commitSeen, prSeen,
           fs, gitconfig, remote>>
vars == <<ovars, cc, pub, tr>>

\* Python's None: as a string, as a text, as a dict
None == "None"
NoText == <<None>>
NoDict == [none |-> TRUE]

\* True / False held in a variable that may still be unset
PyBool(b) == IF b THEN "True" ELSE "False"

-----------------------------------------------------------------------------
(* Text helpers                                                            *)

RECURSIVE Join(_)
\* ' '.join(cmd) of run_cmd's error message
Join(cmd) ==
    IF cmd = <<>> THEN <<>>
    ELSE IF Len(cmd) = 1 THEN cmd[1]
    ELSE cmd[1] \o <<" ">> \o Join(Tail(cmd))

\* Python's `needle in text`
Contains(needle, text) ==
    \E i \in 1..(Len(text) - Len(needle) + 1) :
        SubSeq(text, i, i + Len(needle) - 1) = needle

-----------------------------------------------------------------------------
(* colab_helper.py: command runner and git helpers                         *)

Runs == {"runA", "runB"}

\* a result of subprocess.run
Proc(rc, out, err) == [returncode |-> rc, stdout |-> out, stderr |-> err]

ProcOk == Proc(0, <<>>, <<>>)
ProcFail == Proc(128, <<>>, <<"fatal: error">>)

\* an exception, or its absence
Raise(type, msg) == [raised |-> TRUE, type |-> type, msg |-> msg]
NoRaise == [raised |-> FALSE, type |-> None, msg |-> <<>>]

run_cmd(cmd, check, proc) ==
    IF check /\ proc.returncode # 0
    THEN Raise("RuntimeError",
               <<"Command failed: ">> \o Join(cmd) \o <<"\n">> \o proc.stderr)
    ELSE NoRaise

\* subprocess.run with a cwd that does not exist never starts the process
CwdMissing(dest) ==
    Raise("FileNotFoundError", <<"No such file or directory: ">> \o dest)

clone_url(username, repo, token) ==
    <<"https://", username, ":", token, "@github.com/", username, "/", repo, ".git">>

push_url(username, repo, token) ==
    <<"https://", username, ":", token, "@github.com/", username, "/", repo, ".git">>

dest_path(repo, dest) == IF dest = NoText THEN <<"/content/", repo>> ELSE dest

NothingToCommit == <<"nothing", " ", "to", " ", "commit">>
NoChangesAdded == <<"no", " ", "changes", " ", "added", " ", "to", " ", "commit">>

Returns(v) == [kind |-> "return", value |-> v, exc |-> NoRaise]
Raises(e) == [kind |-> "raise", value |-> None, exc |-> e]

commit_changes(repo_dir, message, paths, addProc, commitProc) ==
    LET add == run_cmd(IF paths # <<>> THEN << <<"git">>, <<"add">> >> \o paths
                       ELSE << <<"git">>, <<"add">>, <<"-A">> >>, TRUE, addProc)
        com == run_cmd(<< <<"git">>, <<"commit">>, <<"-m">>, message >>, TRUE, commitProc)
    IN  IF add.raised THEN Raises(add)
        ELSE IF ~com.raised THEN Returns(TRUE)
        ELSE IF Contains(NothingToCommit, com.msg) \/ Contains(NoChangesAdded, com.msg)
             THEN Returns(FALSE)
        ELSE Raises(com)

PrAccepted2xx == {200, 201, 202, 204}

PrAccepted == {200, 201}

\* f"{resp.status_code}"
StatusText(code) == <<ToString(code)>>

create_pull_request(resp) ==
    IF resp.status_code \notin PrAccepted
    THEN Raises(Raise("RuntimeError",
                      <<"Failed to create PR: ">> \o StatusText(resp.status_code)
                          \o <<" ">> \o resp.text))
    ELSE Returns(resp.json)

-----------------------------------------------------------------------------
(* colab_helper.py: safe_colab_update                                      *)

PipelinePushFirst ==
    <<"clone", "configure", "branch", "write", "commit", "push", "remote", "pr">>

\* the calls of safe_colab_update, in program order
Pipeline ==
    <<"clone", "configure", "branch", "write", "commit", "remote", "push", "pr">>

\* where control goes when `step` returns normally
After(step) ==
    LET i == CHOOSE j \in 1..Len(Pipeline) : Pipeline[j] = step
    IN  IF i = Len(Pipeline) THEN "done" ELSE Pipeline[i + 1]

Username == "alice"
Repo == "demo"
Token == "ghp_SECRET"
Branch == <<"colab/auto-update">>
Base == <<"main">>

\* commit messages a caller passes
Messages == { <<"retry:", " ", "nothing", " ", "to", " ", "commit">> }

DefaultMessage == <<"Colab: automated update at ", "<utcnow>", "Z">>

\* commit_message as safe_colab_update uses it
message_of(a) ==
    IF a.commit_message = NoText THEN DefaultMessage ELSE a.commit_message

ArgSet ==
    [username : {Username}, repo : {Repo}, token : {Token}, branch : {Branch},
     base : {Base}, commit_message : Messages \cup {NoText}, repo_dest : {NoText}]

repo_dir(a) == dest_path(a.repo, a.repo_dest)

File(name, by, text) == [name |-> name, by |-> by, text |-> text]

Absent == [exists |-> FALSE, files |-> {}]

\* a destination left behind by something earlier
Stale ==
    [exists |-> TRUE,
     files |-> {File("colab_update.txt", "earlier", <<"stale">>),
                File("notes.txt", "earlier", <<"stale">>)}]

\* write or overwrite one file of the destination
WriteFile(d, f) ==
    [exists |-> TRUE, files |-> {g \in d.files : g.name # f.name} \cup {f}]

rmtree_keep(d) == d

\* shutil.rmtree(dest_path)
rmtree(d) == Absent

\* what `git clone url dest` leaves at dest: the checkout and the stored origin URL
Cloned(r, url) ==
    [exists |-> TRUE,
     files |-> {File(".git/config", r, url), File("README.md", r, <<"upstream">>)}]

\* git refuses to clone into a directory that exists and is not empty
CloneProcs(d) ==
    IF d.exists /\ d.files # {}
    THEN {Proc(128, <<>>, <<"fatal: destination path already exists">>)}
    ELSE {ProcOk, Proc(128, <<>>, <<"fatal: unable to access">>)}

GitProcs == {ProcOk, ProcFail}

\* results of `git add` / `git commit`, with what really happened
CommitEnv ==
    { [cause |-> "changed", add |-> ProcOk, commit |-> Proc(0, <<"1 file changed">>, <<>>)],
      [cause |-> "add_failed", add |-> ProcFail, commit |-> ProcOk],
      [cause |-> "no_changes", add |-> ProcOk,
       commit |-> Proc(1, NothingToCommit \o <<", working tree clean">>, <<>>)],
      [cause |-> "no_changes", add |-> ProcOk,
       commit |-> Proc(1, <<>>, NothingToCommit \o <<", working tree clean">>)],
      [cause |-> "no_changes", add |-> ProcOk,
       commit |-> Proc(1, <<>>, NoChangesAdded \o <<" (use git add)">>)],
      [cause |-> "other", add |-> ProcOk,
       commit |-> Proc(128, <<>>, <<"fatal: unable to auto-detect email address">>)] }

DictGet(d, k) == IF k \in DOMAIN d THEN d[k] ELSE None

PrStatuses == {200, 201, 204, 302, 422, 500}

PrBodies ==
    { [html_url |-> "https://github.com/alice/demo/pull/1", state |-> "open"],
      [message |-> "Validation Failed"] }

Response(code, json) == [status_code |-> code, json |-> json, text |-> <<"<body>">>]

PrResponses == { Response(c, j) : c \in PrStatuses, j \in PrBodies }

update_result_committed(a, made, pr) ==
    [repo_dir |-> repo_dir(a), branch |-> a.branch, commit_made |-> "True",
     pr_url |-> DictGet(pr, "html_url")]

\* the dict safe_colab_update returns
update_result(a, made, pr) ==
    [repo_dir |-> repo_dir(a), branch |-> a.branch, commit_made |-> made,
     pr_url |-> DictGet(pr, "html_url")]

NoCommitSeen == [cause |-> None, kind |-> None, stderr |-> <<>>]
NoResponse == [none |-> TRUE]

OInit ==
    /\ pc = [r \in Runs |-> "clone"]
    /\ log = [r \in Runs |-> <<>>]
    /\ args \in [Runs -> ArgSet]
    /\ commit_made = [r \in Runs |-> None]
    /\ result = [r \in Runs |-> NoDict]
    /\ error = [r \in Runs |-> NoDict]
    /\ nonzero = [r \in Runs |-> {}]
    /\ commitSeen = [r \in Runs |-> NoCommitSeen]
    /\ prSeen = [r \in Runs |-> NoResponse]
    /\ fs \in {Absent, Stale}
    /\ gitconfig = {}
    /\ remote = {}

\* the call of `step` begins
Begin(r, step) ==
    /\ pc[r] = step
    /\ log' = [log EXCEPT ![r] = Append(@, step)]

\* `step` raised e: nothing in safe_colab_update catches it
Abort(r, step, e) ==
    /\ pc' = [pc EXCEPT ![r] = "error"]
    /\ error' = [error EXCEPT ![r] = [step |-> step, type |-> e.type, msg |-> e.msg]]

Proceed(r, step) ==
    /\ pc' = [pc EXCEPT ![r] = After(step)]
    /\ error' = error

Exited(r, step, procs) ==
    nonzero' = [nonzero EXCEPT ![r] =
                  IF \E p \in procs : p.returncode # 0 THEN @ \cup {step} ELSE @]

\* clone_repo: dest_path.exists()
CloneCheck(r) ==
    /\ Begin(r, "clone")
    /\ pc' = [pc EXCEPT ![r] = IF fs.exists THEN "clone_rm" ELSE "clone_git"]
    /\ UNCHANGED <<args, commit_made, result, error, nonzero, commitSeen, prSeen,
                   fs, gitconfig, remote, cc, pub, tr>>

\* clone_repo: shutil.rmtree(dest_path); it raises if the path has gone meanwhile
CloneRemove(r) ==
    /\ pc[r] = "clone_rm"
    /\ IF fs.exists
       THEN /\ fs' = rmtree(fs)
            /\ pc' = [pc EXCEPT ![r] = "clone_git"]
            /\ error' = error
       ELSE /\ Abort(r, "clone", CwdMissing(repo_dir(args[r])))
            /\ fs' = fs
    /\ UNCHANGED <<log, args, commit_made, result, nonzero, commitSeen, prSeen,
                   gitconfig, remote, cc, pub, tr>>

\* clone_repo: the git clone command
CloneGit(r) ==
    /\ pc[r] = "clone_git"
    /\ \E proc \in CloneProcs(fs) :
         LET a == args[r]
             url == clone_url(a.username, a.repo, a.token)
             e == run_cmd(<< <<"git">>, <<"clone">>, url, repo_dir(a) >>, TRUE, proc)
         IN  /\ Exited(r, "clone", {proc})
             /\ IF e.raised
                THEN Abort(r, "clone", e) /\ fs' = fs
                ELSE Proceed(r, "clone") /\ fs' = Cloned(r, url)
    /\ UNCHANGED <<log, args, commit_made, result, commitSeen, prSeen,
                   gitconfig, remote, cc, pub, tr>>

ConfigureGit(r) ==
    /\ Begin(r, "configure")
    /\ \E p1 \in GitProcs, p2 \in GitProcs :
         LET a == args[r]
             e1 == run_cmd(<< <<"git">>, <<"config">>, <<"--global">>, <<"user.name">>,
                              <<a.username>> >>, TRUE, p1)
             e2 == run_cmd(<< <<"git">>, <<"config">>, <<"--global">>, <<"user.email">>,
                              <<a.username, "@users.noreply.github.com">> >>, TRUE, p2)
         IN  IF e1.raised
             THEN /\ Abort(r, "configure", e1)
                  /\ Exited(r, "configure", {p1})
                  /\ gitconfig' = gitconfig
             ELSE IF e2.raised
             THEN /\ Abort(r, "configure", e2)
                  /\ Exited(r, "configure", {p1, p2})
                  /\ gitconfig' = gitconfig \cup {"user.name"}
             ELSE /\ Proceed(r, "configure")
                  /\ Exited(r, "configure", {p1, p2})
                  /\ gitconfig' = gitconfig \cup {"user.name", "user.email"}
    /\ UNCHANGED <<args, commit_made, result, commitSeen, prSeen, fs, remote, cc, pub, tr>>

CreateBranch(r) ==
    /\ Begin(r, "branch")
    /\ IF ~fs.exists
       THEN /\ Abort(r, "branch", CwdMissing(repo_dir(args[r])))
            /\ UNCHANGED <<fs, nonzero>>
       ELSE \E proc \in GitProcs :
              LET e == run_cmd(<< <<"git">>, <<"checkout">>, <<"-b">>, args[r].branch >>,
                               TRUE, proc)
              IN  /\ Exited(r, "branch", {proc})
                  /\ IF e.raised
                     THEN Abort(r, "branch", e) /\ fs' = fs
                     ELSE /\ Proceed(r, "branch")
                          /\ fs' = WriteFile(fs, File(".git/HEAD", r, args[r].branch))
    /\ UNCHANGED <<args, commit_made, result, commitSeen, prSeen, gitconfig, remote,
                   cc, pub, tr>>

\* demo_file.write_text(...)
WriteDemo(r) ==
    /\ Begin(r, "write")
    /\ IF ~fs.exists
       THEN /\ Abort(r, "write", CwdMissing(repo_dir(args[r])))
            /\ fs' = fs
       ELSE /\ Proceed(r, "write")
            /\ fs' = WriteFile(fs, File("colab_update.txt", r,
                                        <<"Updated from Colab at ", "<utcnow>", "Z">>))
    /\ UNCHANGED <<args, commit_made, result, nonzero, commitSeen, prSeen, gitconfig,
                   remote, cc, pub, tr>>

Commit(r) ==
    /\ Begin(r, "commit")
    /\ IF ~fs.exists
       THEN /\ Abort(r, "commit", CwdMissing(repo_dir(args[r])))
            /\ UNCHANGED <<fs, nonzero, commit_made, commitSeen>>
       ELSE \E env \in CommitEnv :
              LET a == args[r]
                  demo_file == repo_dir(a) \o <<"/colab_update.txt">>
                  o == commit_changes(repo_dir(a), message_of(a), <<demo_file>>,
                                      env.add, env.commit)
              IN  /\ Exited(r, "commit",
                            IF env.add.returncode # 0 THEN {env.add}
                            ELSE {env.add, env.commit})
                  /\ commitSeen' = [commitSeen EXCEPT ![r] =
                                      [cause |-> env.cause, kind |-> o.kind,
                                       stderr |-> env.commit.stderr]]
                  /\ IF o.kind = "raise"
                     THEN /\ Abort(r, "commit", o.exc)
                          /\ UNCHANGED <<fs, commit_made>>
                     ELSE /\ Proceed(r, "commit")
                          /\ commit_made' = [commit_made EXCEPT ![r] = PyBool(o.value)]
                          /\ fs' = IF env.commit.returncode = 0
                                   THEN WriteFile(fs, File(".git/objects", r, message_of(a)))
                                   ELSE fs
    /\ UNCHANGED <<args, result, prSeen, gitconfig, remote, cc, pub, tr>>

SetRemote(r) ==
    /\ Begin(r, "remote")
    /\ IF ~fs.exists
       THEN /\ Abort(r, "remote", CwdMissing(repo_dir(args[r])))
            /\ UNCHANGED <<fs, nonzero>>
       ELSE \E proc \in GitProcs :
              LET a == args[r]
                  url == push_url(a.username, a.repo, a.token)
                  e == run_cmd(<< <<"git">>, <<"remote">>, <<"set-url">>, <<"origin">>,
                                  url >>, TRUE, proc)
              IN  /\ Exited(r, "remote", {proc})
                  /\ IF e.raised
                     THEN Abort(r, "remote", e) /\ fs' = fs
                     ELSE /\ Proceed(r, "remote")
                          /\ fs' = WriteFile(fs, File(".git/config", r, url))
    /\ UNCHANGED <<args, commit_made, result, commitSeen, prSeen, gitconfig, remote,
                   cc, pub, tr>>

Push(r) ==
    /\ Begin(r, "push")
    /\ IF ~fs.exists
       THEN /\ Abort(r, "push", CwdMissing(repo_dir(args[r])))
            /\ UNCHANGED <<remote, nonzero>>
       ELSE \E proc \in GitProcs :
              LET e == run_cmd(<< <<"git">>, <<"push">>, <<"--set-upstream">>, <<"origin">>,
                                  args[r].branch >>, TRUE, proc)
              IN  /\ Exited(r, "push", {proc})
                  /\ IF e.raised
                     THEN Abort(r, "push", e) /\ remote' = remote
                     ELSE /\ Proceed(r, "push")
                          /\ remote' = remote \cup {[branch |-> args[r].branch, by |-> r]}
    /\ UNCHANGED <<args, commit_made, result, commitSeen, prSeen, fs, gitconfig,
                   cc, pub, tr>>

CreatePR(r) ==
    /\ Begin(r, "pr")
    /\ \E resp \in PrResponses :
         LET a == args[r]
             o == create_pull_request(resp)
         IN  /\ prSeen' = [prSeen EXCEPT ![r] = resp]
             /\ IF o.kind = "raise"
                THEN Abort(r, "pr", o.exc) /\ result' = result
                ELSE /\ Proceed(r, "pr")
                     /\ result' = [result EXCEPT ![r] =
                                     update_result(a, commit_made[r], o.value)]
    /\ UNCHANGED <<args, commit_made, nonzero, commitSeen, fs, gitconfig, remote,
                   cc, pub, tr>>

ONext ==
    \E r \in Runs :
        \/ CloneCheck(r)
        \/ CloneRemove(r)
        \/ CloneGit(r)
        \/ ConfigureGit(r)
        \/ CreateBranch(r)
        \/ WriteDemo(r)
        \/ Commit(r)
        \/ SetRemote(r)
        \/ Push(r)
        \/ CreatePR(r)

Idle == "idle"

Init ==
    /\ OInit
    /\ cc = Idle
    /\ pub = Idle
    /\ tr = Idle

Spec == Init /\ [][ONext]_vars

-----------------------------------------------------------------------------
(* colab_helper.py: commit_changes called directly from a notebook         *)

\* every variable of safe_colab_update at rest
ORest ==
    /\ pc = [r \in Runs |-> "done"]
    /\ log = [r \in Runs |-> <<>>]
    /\ args = [r \in Runs |-> CHOOSE a \in ArgSet : a.commit_message = NoText]
    /\ commit_made = [r \in Runs |-> None]
    /\ result = [r \in Runs |-> NoDict]
    /\ error = [r \in Runs |-> NoDict]
    /\ nonzero = [r \in Runs |-> {}]
    /\ commitSeen = [r \in Runs |-> NoCommitSeen]
    /\ prSeen = [r \in Runs |-> NoResponse]
    /\ fs = Absent
    /\ gitconfig = {}
    /\ remote = {}

CcMessages ==
    Messages \cup { DefaultMessage, <<"fix", " ", "typo">>,
                    <<"no", " ", "changes", " ", "added", " ", "to", " ", "commit", "s">> }

CcPaths == { <<>>, << <<"data/output.txt">> >> }

CcEnv ==
    CommitEnv \cup
    { [cause |-> "other", add |-> ProcOk,
       commit |-> Proc(1, <<>>, <<"pre-commit hook failed">>)] }

InitCommit ==
    /\ cc \in [pc : {"call"}, message : CcMessages, paths : CcPaths, env : CcEnv,
               kind : {None}, value : {None}, msg : {<<>>}]
    /\ pub = Idle
    /\ tr = Idle
    /\ ORest

CommitCall ==
    /\ cc.pc = "call"
    /\ LET o == commit_changes(<<"/content/", Repo>>, cc.message, cc.paths,
                               cc.env.add, cc.env.commit)
       IN  cc' = [cc EXCEPT !.pc = "done", !.kind = o.kind,
                            !.value = IF o.kind = "return" THEN PyBool(o.value) ELSE None,
                            !.msg = o.exc.msg]
    /\ UNCHANGED <<ovars, pub, tr>>

SpecCommit == InitCommit /\ [][CommitCall]_vars

-----------------------------------------------------------------------------
(* scripts/create_github_file.py                                           *)

Whitespace == {" ", "\t", "\n"}

RECURSIVE lstrip(_)
lstrip(t) == IF t # <<>> /\ Head(t) \in Whitespace THEN lstrip(Tail(t)) ELSE t

RECURSIVE rstrip(_)
rstrip(t) ==
    IF t # <<>> /\ t[Len(t)] \in Whitespace THEN rstrip(SubSeq(t, 1, Len(t) - 1)) ELSE t

\* str.strip()
strip(t) == rstrip(lstrip(t))

\* os.environ / getpass as get_token meets them
TokenEnvs ==
    { [GITHUB_TOKEN |-> <<Token, "\n">>, getpass |-> NoText],
      [GITHUB_TOKEN |-> <<" ">>, getpass |-> NoText],
      [GITHUB_TOKEN |-> NoText, getpass |-> <<" ", Token>>],
      [GITHUB_TOKEN |-> NoText, getpass |-> NoText] }

\* get_token(): the stripped token, or NoText; getpass = NoText is getpass raising
get_token(env) ==
    IF env.GITHUB_TOKEN # NoText /\ env.GITHUB_TOKEN # <<>>
    THEN strip(env.GITHUB_TOKEN)
    ELSE IF env.getpass # NoText THEN strip(env.getpass) ELSE NoText

\* requests.Response.raise_for_status(): raises for 4xx and 5xx only
raise_for_status(code) == 400 <= code /\ code < 600

file_exists(resp) ==
    IF resp.status_code = 200 THEN Returns(resp.json)
    ELSE IF resp.status_code = 404 THEN Returns(NoDict)
    ELSE IF raise_for_status(resp.status_code)
         THEN Raises(Raise("HTTPError", StatusText(resp.status_code)))
    ELSE Returns(NoDict)

\* bool(existing) for None or a dict with keys
Truthy(d) == d # NoDict

Shas == {"sha-1", "sha-2"}

\* bodies of a 200 from the contents endpoint ("returns dict with 'sha' etc.")
ContentBodies ==
    { [name |-> "f", sha |-> h] : h \in Shas } \cup { [name |-> "f"] }

ProbeStatuses == {200, 404, 204, 304, 403, 500}

ProbeResponses ==
    { Response(200, j) : j \in ContentBodies } \cup
    { Response(c, [message |-> "m"]) : c \in ProbeStatuses \ {200} }

PutAccepted == {200, 201}

PutStatuses == {200, 201, 204, 409, 422, 500}

PutResponses == { Response(c, [content |-> "c"]) : c \in PutStatuses }

Branches == { <<>>, <<"feature/colab">> }

\* payload built before the probe
base_payload(message, encoded, branch) ==
    IF branch # <<>>
    THEN [message |-> message, content |-> encoded, branch |-> branch]
    ELSE [message |-> message, content |-> encoded]

with_sha_cached(payload, existing) ==
    [k \in DOMAIN payload \cup {"sha"} |-> IF k = "sha" THEN "sha-1" ELSE payload[k]]

\* payload["sha"] = existing.get("sha")
with_sha(payload, existing) ==
    [k \in DOMAIN payload \cup {"sha"} |->
        IF k = "sha" THEN DictGet(existing, "sha") ELSE payload[k]]

decide_always_put(existing, force_update) == "put"

\* what create_or_update_file does with the probe's answer
decide(existing, force_update) ==
    IF Truthy(existing)
    THEN IF ~force_update THEN "exit" ELSE "put_sha"
    ELSE "put"

InitPublisher ==
    /\ pub \in [pc : {"token"}, env : TokenEnvs, branch : Branches, force_update : BOOLEAN,
                payload : {NoDict}, probe : {NoDict}, existing : {NoDict},
                put : {NoDict}, requests : {<<>>}, outcome : {None}, detail : {<<>>}]
    /\ cc = Idle
    /\ tr = Idle
    /\ ORest

\* create_or_update_file up to the probe: token, headers, payload
PubPrepare ==
    /\ pub.pc = "token"
    /\ LET token == get_token(pub.env)
       IN  IF token = NoText \/ token = <<>>
           THEN pub' = [pub EXCEPT !.pc = "exit", !.outcome = "NoToken",
                                   !.detail = <<"No GitHub token provided.">>]
           ELSE pub' = [pub EXCEPT !.pc = "probe",
                                   !.payload = base_payload(<<"msg">>, <<"YmFzZTY0">>,
                                                            pub.branch)]
    /\ UNCHANGED <<ovars, cc, tr>>

\* file_exists and the decision taken on its answer
PubProbe ==
    /\ pub.pc = "probe"
    /\ \E resp \in ProbeResponses :
         LET o == file_exists(resp)
             get == [method |-> "GET", body |-> NoDict]
         IN  IF o.kind = "raise"
             THEN pub' = [pub EXCEPT !.pc = "exit", !.probe = resp,
                                     !.requests = Append(@, get),
                                     !.outcome = "HTTPError", !.detail = o.exc.msg]
             ELSE LET d == decide(o.value, pub.force_update)
                  IN  IF d = "exit"
                      THEN pub' = [pub EXCEPT !.pc = "exit", !.probe = resp,
                                     !.existing = o.value,
                                     !.requests = Append(@, get),
                                     !.outcome = "FileExists",
                                     !.detail = <<"File already exists at ", "path",
                                                  " on branch ">> \o
                                                (IF pub.branch # <<>> THEN pub.branch
                                                 ELSE <<"default">>)]
                      ELSE pub' = [pub EXCEPT !.pc = "put", !.probe = resp,
                                     !.existing = o.value,
                                     !.requests = Append(@, get),
                                     !.payload = IF d = "put_sha"
                                                 THEN with_sha(@, o.value) ELSE @]
    /\ UNCHANGED <<ovars, cc, tr>>

\* requests.put and the handling of its response
PubPut ==
    /\ pub.pc = "put"
    /\ \E resp \in PutResponses :
         pub' = [pub EXCEPT !.pc = "exit", !.put = resp,
                    !.requests = Append(@, [method |-> "PUT", body |-> pub.payload]),
                    !.outcome = IF resp.status_code \in PutAccepted
                                THEN "returned" ELSE "PublishFailed",
                    !.detail = IF resp.status_code \in PutAccepted THEN <<>>
                               ELSE <<"GitHub API error (">> \o
                                    StatusText(resp.status_code) \o <<")">>]
    /\ UNCHANGED <<ovars, cc, tr>>

NextPublisher == PubPrepare \/ PubProbe \/ PubPut

SpecPublisher == InitPublisher /\ [][NextPublisher]_vars

-----------------------------------------------------------------------------
(* src/process.py                                                          *)

MaxLen == 4

Chars == {"a", "B", " ", "\n"}

RECURSIVE TextsUpTo(_)
\* every text of at most n characters
TextsUpTo(n) ==
    IF n = 0 THEN {<<>>}
    ELSE LET shorter == TextsUpTo(n - 1)
         IN  shorter \cup { Append(t, c) : t \in {u \in shorter : Len(u) = n - 1},
                                           c \in Chars }

\* data/input.txt: NoText when the file does not exist
InputFiles == TextsUpTo(MaxLen) \cup {NoText}

\* where the first line of a non-empty text ends
LineEnd(text) ==
    IF \E i \in 1..Len(text) : text[i] = "\n"
    THEN CHOOSE i \in 1..Len(text) :
            text[i] = "\n" /\ \A j \in 1..(i - 1) : text[j] # "\n"
    ELSE Len(text)

RECURSIVE iter_lines(_)
\* `for line in f`: each line with its line feed, the last one maybe without
iter_lines(text) ==
    IF text = <<>> THEN <<>>
    ELSE <<SubSeq(text, 1, LineEnd(text))>>
            \o iter_lines(SubSeq(text, LineEnd(text) + 1, Len(text)))

RECURSIVE rstrip_nl(_)
\* line.rstrip("\n")
rstrip_nl(line) ==
    IF line # <<>> /\ line[Len(line)] = "\n"
    THEN rstrip_nl(SubSeq(line, 1, Len(line) - 1)) ELSE line

read_input(file) ==
    IF file = NoText THEN <<>>
    ELSE [i \in 1..Len(iter_lines(file)) |-> rstrip_nl(iter_lines(file)[i])]

\* str.upper() on one character
UpperChar(c) == IF c = "a" THEN "A" ELSE c

upper(line) == [i \in 1..Len(line) |-> UpperChar(line[i])]

NotBlank(line) == strip(line) # <<>>

transform_keep_blank(lines) == [i \in 1..Len(lines) |-> upper(lines[i])]

transform(lines) ==
    LET kept == SelectSeq(lines, NotBlank)
    IN  [i \in 1..Len(kept) |-> upper(kept[i])]

RECURSIVE join_nl(_)
\* "\n".join(lines)
join_nl(lines) ==
    IF lines = <<>> THEN <<>>
    ELSE IF Len(lines) = 1 THEN lines[1]
    ELSE lines[1] \o <<"\n">> \o join_nl(Tail(lines))

Header == <<"# Generated at ", "<utcnow>", "Z">>

\* the text write_output leaves in data/output.txt
write_output(transformed) ==
    Header \o <<"\n">> \o
    (IF transformed # <<>> THEN join_nl(transformed) \o <<"\n">>
     ELSE <<"NO_INPUT", "\n">>)

\* exceptions the filesystem can raise inside main's try block
Faults == {"none", "read", "write"}

InitTransform ==
    /\ tr \in [pc : {"read"}, input : InputFiles, fault : Faults, lines : {<<>>},
               transformed : {<<>>}, output : {NoText}, rc : {-1}]
    /\ cc = Idle
    /\ pub = Idle
    /\ ORest

\* ensure_data_dir(); lines = read_input()
TrRead ==
    /\ tr.pc = "read"
    /\ IF tr.fault = "read" /\ tr.input # NoText
       THEN tr' = [tr EXCEPT !.pc = "exit", !.rc = 2]
       ELSE tr' = [tr EXCEPT !.pc = "transform", !.lines = read_input(tr.input)]
    /\ UNCHANGED <<ovars, cc, pub>>

TrTransform ==
    /\ tr.pc = "transform"
    /\ tr' = [tr EXCEPT !.pc = "write", !.transformed = transform(tr.lines)]
    /\ UNCHANGED <<ovars, cc, pub>>

\* write_output(transformed); return 0
TrWrite ==
    /\ tr.pc = "write"
    /\ IF tr.fault = "write"
       THEN tr' = [tr EXCEPT !.pc = "exit", !.rc = 2]
       ELSE tr' = [tr EXCEPT !.pc = "exit", !.rc = 0,
                             !.output = write_output(tr.transformed)]
    /\ UNCHANGED <<ovars, cc, pub>>

NextTransform == TrRead \/ TrTransform \/ TrWrite

SpecTransform == InitTransform /\ [][NextTransform]_vars

-----------------------------------------------------------------------------
(* Properties of safe_colab_update (checked under Spec)                    *)

IsPrefix(s, t) == Len(s) <= Len(t) /\ s = SubSeq(t, 1, Len(s))

Last(s) == s[Len(s)]

StepOrder ==
    <<"clone", "configure", "branch", "write", "commit", "remote", "push", "pr">>

PrRefused(r) == prSeen[r] # NoResponse /\ prSeen[r].status_code \notin {200, 201}

\* the run ended with an error at `step`, having returned nothing
EndedAt(r, step) ==
    /\ pc[r] = "error"
    /\ error[r] # NoDict
    /\ error[r].step = step
    /\ Last(log[r]) = step
    /\ result[r] = NoDict

\* steps run in program order, each at most once, and nothing runs after an error
OrderKept == \A r \in Runs : IsPrefix(log[r], StepOrder)

\* a run that ended in error stays there, and the failing step rolled nothing back
NoRecovery ==
    \A r \in Runs :
        /\ pc[r] = "error" => (pc'[r] = "error" /\ log'[r] = log[r] /\ result'[r] = NoDict)
        /\ (pc[r] # "error" /\ pc'[r] = "error") => (fs' = fs /\ remote' = remote)

NoChangePhrase(text) ==
    \/ Contains(<<"nothing", " ", "to", " ", "commit">>, text)
    \/ Contains(<<"no", " ", "changes", " ", "added", " ", "to", " ", "commit">>, text)

\* the non-zero exit was that of git commit (git add had succeeded), with one of
\* the two phrases in the commit message or in what git wrote to stderr
Swallowed(r, step) ==
    /\ step = "commit"
    /\ commitSeen[r].cause # "add_failed"
    /\ NoChangePhrase(message_of(args[r])) \/ NoChangePhrase(commitSeen[r].stderr)

C5_TokenNeverPersistedOrLogged ==
    /\ \A f \in fs.files : ~Contains(<<Token>>, f.text)
    /\ \A r \in Runs : error[r] # NoDict => ~Contains(<<Token>>, error[r].msg)

\* C6: a pull-request response with status 200 or 201 ends the run with a
\* result whose pr_url is the response's html_url; any other status ends it
\* with an error that carries the status code and the body, and no result.
C6_PullRequestStatus ==
    \A r \in Runs :
        prSeen[r] # NoResponse =>
            IF prSeen[r].status_code \in {200, 201}
            THEN /\ pc[r] = "done"
                 /\ error[r] = NoDict
                 /\ result[r] # NoDict
                 /\ result[r].pr_url = DictGet(prSeen[r].json, "html_url")
            ELSE /\ EndedAt(r, "pr")
                 /\ Contains(<<ToString(prSeen[r].status_code)>>, error[r].msg)
                 /\ Contains(prSeen[r].text, error[r].msg)

\* a 2xx other than 200 and 201 was refused
C6_Witness ==
    \E r \in Runs :
        /\ prSeen[r] # NoResponse
        /\ prSeen[r].status_code = 204
        /\ pc[r] = "error"

\* C7: once commit_made is False the run goes on with remote, push and pull
\* request in that order, and a run that then gets its pull request returns
\* commit_made = False with the branch and the pull request's URL.
C7_EmptyCommitContinues ==
    \A r \in Runs :
        commit_made[r] = "False" =>
            /\ IsPrefix(log[r], StepOrder)
            /\ pc[r] \in {"remote", "push", "pr", "done", "error"}
            /\ pc[r] = "error" => error[r].step \in {"remote", "push", "pr"}
            /\ pc[r] \in {"push", "pr", "done"} => Len(log[r]) >= 6
            /\ (prSeen[r] # NoResponse /\ ~PrRefused(r)) =>
                  /\ pc[r] = "done"
                  /\ log[r] = StepOrder
                  /\ result[r].commit_made = "False"
                  /\ result[r].branch = args[r].branch
                  /\ result[r].pr_url = DictGet(prSeen[r].json, "html_url")

C7_Witness ==
    \E r \in Runs :
        /\ pc[r] = "done"
        /\ result[r].commit_made = "False"
        /\ result[r].pr_url # None

\* C10: the clone command starts only with the destination gone, a successful
\* clone leaves only what that run cloned, and the removal happens whatever
\* step the other run has reached.
C10_Clobber ==
    [][\A r \in Runs :
          /\ (pc[r] = "clone" /\ pc'[r] # "clone" /\ fs.exists) => pc'[r] = "clone_rm"
          /\ (pc[r] # "clone_git" /\ pc'[r] = "clone_git") => ~fs'.exists
          /\ (pc[r] = "clone_rm" /\ pc'[r] = "clone_git") => fs' = Absent
          /\ (pc[r] = "clone_git" /\ pc'[r] = "configure") =>
                /\ ~fs.exists \/ fs.files = {}
                /\ \A f \in fs'.files : f.by = r]_vars

\* runB has removed the working copy runA was about to push from
C10_Witness ==
    /\ pc["runA"] = "push"
    /\ pc["runB"] = "clone_git"
    /\ ~fs.exists

-----------------------------------------------------------------------------
(* Properties of commit_changes (checked under SpecCommit)                 *)

\* C4: commit_changes returns True when the commit succeeds, False when there
\* was nothing to commit, and raises for every other failure.
C4_ThreeOutcomes ==
    cc.pc = "done" =>
        /\ cc.env.cause = "changed" => (cc.kind = "return" /\ cc.value = "True")
        /\ cc.env.cause = "no_changes" => (cc.kind = "return" /\ cc.value = "False")
        /\ cc.env.cause \in {"other", "add_failed"} => cc.kind = "raise"

-----------------------------------------------------------------------------
(* Properties of create_or_update_file (checked under SpecPublisher)       *)

Probed == pub.probe # NoDict

Puts == { i \in DOMAIN pub.requests : pub.requests[i].method = "PUT" }

\* C2: a probe answered 200 without force_update ends in FileExists, and the
\* probe's GET is the only request of the run.
C2_NoWriteWithoutForce ==
    (Probed /\ pub.probe.status_code = 200 /\ ~pub.force_update) =>
        /\ pub.pc = "exit"
        /\ pub.outcome = "FileExists"
        /\ Len(pub.requests) = 1
        /\ pub.requests[1].method = "GET"

C2_Witness ==
    /\ pub.outcome = "FileExists"
    /\ pub.probe.status_code = 200
    /\ pub.requests # <<>>

\* C3: a PUT carries "sha" exactly when the probe answered 200 and force_update
\* is set, with the sha of that answer; after a 404 the PUT carries no "sha"
\* whatever force_update is, and the call returns iff the PUT answers 200 or 201.
C3_ShaFromProbe ==
    /\ \A i \in Puts :
          LET body == pub.requests[i].body
          IN  /\ i = 2
              /\ pub.requests[1].method = "GET"
              /\ "sha" \in DOMAIN body <=>
                    (pub.probe.status_code = 200 /\ pub.force_update)
              /\ "sha" \in DOMAIN body => body.sha = DictGet(pub.probe.json, "sha")
    /\ (Probed /\ pub.probe.status_code = 404) =>
          /\ pub.pc \in {"put", "exit"}
          /\ "sha" \notin DOMAIN pub.payload
          /\ pub.pc = "exit" =>
                /\ Puts = {2}
                /\ pub.outcome = "returned" <=> pub.put.status_code \in {200, 201}

\* an overwrite that sent the second of the two version markers
C3_Witness ==
    /\ Puts # {}
    /\ "sha" \in DOMAIN pub.requests[2].body
    /\ pub.requests[2].body.sha = "sha-2"
    /\ pub.outcome = "returned"

\* C9: the probe takes 200 as "exists" with the body returned, 404 as "does not
\* exist", and every other status as a failure that ends the call before a PUT.
C9_ProbeClassification ==
    Probed =>
        IF pub.probe.status_code = 200
        THEN pub.existing = pub.probe.json /\ pub.outcome # "HTTPError"
        ELSE IF pub.probe.status_code = 404
        THEN pub.existing = NoDict /\ pub.outcome # "HTTPError"
        ELSE pub.pc = "exit" /\ pub.outcome = "HTTPError" /\ Puts = {}

-----------------------------------------------------------------------------
(* Properties of process.py (checked under SpecTransform)                  *)

RECURSIVE FileLines(_)
\* the lines of a text file: what stands before each line feed, and what is
\* left after the last one
FileLines(text) ==
    IF text = <<>> THEN <<>>
    ELSE IF \A i \in 1..Len(text) : text[i] # "\n" THEN <<text>>
    ELSE LET n == CHOOSE i \in 1..Len(text) :
                     text[i] = "\n" /\ \A j \in 1..(i - 1) : text[j] # "\n"
         IN  <<SubSeq(text, 1, n - 1)>> \o FileLines(SubSeq(text, n + 1, Len(text)))

InputLines == IF tr.input = NoText THEN <<>> ELSE FileLines(tr.input)

\* positions of the input lines that hold something other than white space
Kept == { i \in 1..Len(InputLines) :
            \E j \in 1..Len(InputLines[i]) : InputLines[i][j] \notin {" ", "\t"} }

\* C8: a run that meets no I/O error exits with 0 and leaves a header line
\* followed by the uppercased non-blank input lines in their order, or by the
\* single line NO_INPUT when there are no input lines.
C8_TransformOutput ==
    (tr.pc = "exit" /\ tr.fault = "none") =>
        /\ tr.rc = 0
        /\ tr.output # NoText
        /\ LET out == FileLines(tr.output)
               body == Tail(out)
           IN  /\ out # <<>>
               /\ out[1] # <<>>
               /\ out[1][1] = "# Generated at "
               /\ Kept # {} =>
                     /\ Len(body) = Cardinality(Kept)
                     /\ \A i \in Kept :
                           body[Cardinality({k \in Kept : k <= i})]
                              = [j \in 1..Len(InputLines[i]) |->
                                    IF InputLines[i][j] = "a" THEN "A"
                                    ELSE InputLines[i][j]]
               /\ InputLines = <<>> => body = << <<"NO_INPUT">> >>

\* blank lines between and around two kept lines
C8_Witness ==
    /\ tr.pc = "exit"
    /\ tr.rc = 0
    /\ tr.input = <<"\n", "a", "\n", "B">>

====
